---- MODULE Spec2Model ----
(***************************************************************************)
(* Model of askbot/tasks.py: the three Celery tasks                        *)
(*   notify_author_of_published_revision_celery_task,                      *)
(*   record_post_update_celery_task (with its work unit                    *)
(*   record_post_update) and record_question_visit.                        *)
(*                                                                         *)
(* A behaviour is one unit of work: Init queues one task with its          *)
(* arguments, the stored tables it reads and the answers the collaborators *)
(* outside the module will give; one action per entry point runs the whole *)
(* body and leaves its effects in the variables.                           *)
(***************************************************************************)
EXTENDS Integers, Sequences, FiniteSets, TLC

VARIABLES
    pc,                 \* "ready": the task is queued; "done": it has run
    task,               \* the queued task: its name and arguments
    askbot_settings,    \* askbot.conf.settings: the two feature flags
    collab,             \* what the Post collaborators answer when called
    Activity,           \* Activity rows saved, in order
    Mention,            \* rows made by Activity.objects.create_new_mention
    response_counts,    \* per user: number of update_response_counts() calls
    notifications,      \* calls of send_instant_notifications_about_activity_in_post
    calls,              \* the collaborator calls of the run, in program order
    exception,          \* what the task raised to the executor ("None": returned)
    stderr,             \* tracebacks printed to sys.stderr
    view_count,         \* question_post.thread.view_count
    visits,             \* user.visit_question(question_post) calls
    badge_signals,      \* award_badges_signal.send calls
    ReplyAddress,       \* ReplyAddress rows
    outbox              \* mail.send_mail calls

vars == <<pc, task, askbot_settings, collab, Activity, Mention,
          response_counts, notifications, calls, exception, stderr,
          view_count, visits, badge_signals, ReplyAddress, outbox>>

-----------------------------------------------------------------------------
(* Bounds *)

\* longest newly_mentioned_users / newly_mentioned_user_id_list
MaxMentioned == 2
\* largest thread view count before the visit
MaxViewCount == 2
\* most ReplyAddress rows stored before the notification
MaxReplyAddresses == 1

-----------------------------------------------------------------------------
(* Stored objects *)

\* User rows: 1 is an administrator, 2 a moderator, 3 and 4 are regular users.
Users == {1, 2, 3, 4}
\* django.contrib.auth AnonymousUser
AnonymousUser == 0
\* an id no row has
NoSuchId == 0

is_administrator(u) == u = 1
is_moderator(u) == u = 2
is_anonymous(u) == u = AnonymousUser
is_authenticated(u) == u \in Users
\* User.reputation: low for the two staff accounts; the regular users sit on
\* either side of the spam-protection threshold
reputation(u) == CASE u = 3 -> 14 [] u = 4 -> 15 [] OTHER -> 1

\* Post rows, by post_type
Posts == {1, 2, 3}
post_type(p) == CASE p = 1 -> "question" [] p = 2 -> "answer" [] OTHER -> "comment"
is_comment(p) == post_type(p) = "comment"
text(p) == <<"text of post", p>>
thread_title(p) == <<"title of thread of post", p>>
get_origin_post(p) == 1

\* ContentType rows
ContentTypes == {1}

Range(s) == {s[i] : i \in 1..Len(s)}

SeqsUpTo(S, n) == UNION {[1..k -> S] : k \in 0..n}

RECURSIVE Ascending(_)
\* the elements of a finite set of integers, smallest first
Ascending(S) ==
    IF S = {} THEN <<>>
    ELSE LET m == CHOOSE x \in S : \A y \in S : x <= y
         IN  <<m>> \o Ascending(S \ {m})

RECURSIVE Count(_, _)
\* number of occurrences of x in the sequence s
Count(s, x) ==
    IF s = <<>> THEN 0
    ELSE (IF Head(s) = x THEN 1 ELSE 0) + Count(Tail(s), x)

Call(op, arg) == [op |-> op, arg |-> arg]

CallsOf(op) == SelectSeq(calls, LAMBDA c : c.op = op)

-----------------------------------------------------------------------------
(* record_post_update *)

\* post.get_updated_activity_data(created): the activity type of the update
get_updated_activity_data(post, created) ==
    <<post_type(post), IF created THEN "posted" ELSE "updated">>

\* summary: the comment's text for a comment, the diff otherwise
Summary(post, diff) == IF is_comment(post) THEN text(post) ELSE diff

\* update_activity = Activity(...), as saved
UpdateActivity(updated_by, timestamp, post, activity_type, summary) ==
    [user |-> updated_by,
     active_at |-> timestamp,
     content_object |-> post,
     activity_type |-> activity_type,
     question |-> get_origin_post(post),
     summary |-> summary,
     recipients |-> {}]

\* update_activity.add_recipients(recipients)
add_recipients(update_activity, recipients) ==
    [update_activity EXCEPT !.recipients = @ \cup recipients]

\* one row of Activity.objects.create_new_mention
NewMention(u, post, updated_by, timestamp) ==
    [mentioned_whom |-> u,
     mentioned_in |-> post,
     mentioned_by |-> updated_by,
     mentioned_at |-> timestamp]

\* the loop without its "if u in recipients: continue"
MentionedAll(newly_mentioned_users, recipients) == newly_mentioned_users

\* the users the "create new mentions" loop does not skip, in loop order
MentionedAndNotRecipient(newly_mentioned_users, recipients) ==
    SelectSeq(newly_mentioned_users, LAMBDA u : ~(u \in recipients))

\* the "create new mentions" loop
CreateNewMentions(newly_mentioned_users, recipients, post, updated_by, timestamp) ==
    LET whom == MentionedAndNotRecipient(newly_mentioned_users, recipients)
    IN  [i \in 1..Len(whom) |-> NewMention(whom[i], post, updated_by, timestamp)]

\* the assertion compiled away
AssertNothing(updated_by, recipients) == TRUE

\* assert(updated_by not in recipients)
AssertUpdatedByNotInRecipients(updated_by, recipients) ==
    ~(updated_by \in recipients)

\* the two collections chained instead of united
UpdateResponseCountsChained(recipients, newly_mentioned_users) ==
    [u \in Users |-> (IF u \in recipients THEN 1 ELSE 0)
                     + Count(newly_mentioned_users, u)]

\* for user in (set(recipients) | set(newly_mentioned_users)):
\*     user.update_response_counts()
\* as the number of calls made on each user
UpdateResponseCounts(recipients, newly_mentioned_users) ==
    LET users == recipients \cup Range(newly_mentioned_users)
    IN  [u \in Users |-> IF u \in users THEN 1 ELSE 0]

\* the short circuit never taken
EmailAlertsNeverDisabled == FALSE

\* if askbot_settings.ENABLE_EMAIL_ALERTS == False: return
EmailAlertsDisabled == askbot_settings.ENABLE_EMAIL_ALERTS = FALSE

\* the plug keeping every staff member, moderators too
SpamProtectionKeepingModerators(created, updated_by, notification_subscribers) ==
    IF /\ created
       /\ ~(is_administrator(updated_by) \/ is_moderator(updated_by))
       /\ reputation(updated_by) < 15
    THEN {u \in notification_subscribers : is_administrator(u) \/ is_moderator(u)}
    ELSE notification_subscribers

\* the "temporary spam protection plug"
SpamProtection(created, updated_by, notification_subscribers) ==
    IF /\ created
       /\ ~(is_administrator(updated_by) \/ is_moderator(updated_by))
       /\ reputation(updated_by) < 15
    THEN {u \in notification_subscribers : is_administrator(u)}
    ELSE notification_subscribers

NoResponseCounts == [u \in Users |-> 0]

\* a failed assertion keeping nothing of what was stored before it
AssertionFailedRolledBack(update_activity, mentions, calls1) ==
    [exception |-> "AssertionError",
     Activity |-> <<>>, Mention |-> <<>>,
     response_counts |-> NoResponseCounts, notifications |-> <<>>,
     calls |-> calls1]

\* the run ends at the failed assertion: what was saved before it stays saved
AssertionFailed(update_activity, mentions, calls1) ==
    [exception |-> "AssertionError",
     Activity |-> <<update_activity>>, Mention |-> mentions,
     response_counts |-> NoResponseCounts, notifications |-> <<>>,
     calls |-> calls1]

RECURSIVE CountCalls(_, _)
\* the update_response_counts calls, by ascending user id
CountCalls(counts, us) ==
    IF us = <<>> THEN <<>>
    ELSE [i \in 1..counts[Head(us)] |-> Call("update_response_counts", Head(us))]
         \o CountCalls(counts, Tail(us))

\* The effects of one run of record_post_update, and the exception it ends
\* with ("None" when it returns).
record_post_update(post, updated_by, newly_mentioned_users, timestamp, created, diff) ==
    IF collab.activity_data_raises
    THEN [exception |-> "NotImplementedError",
          Activity |-> <<>>, Mention |-> <<>>,
          response_counts |-> NoResponseCounts, notifications |-> <<>>,
          calls |-> <<Call("get_updated_activity_data", post)>>]
    ELSE
    LET activity_type == get_updated_activity_data(post, created)
        summary == Summary(post, diff)
        saved == UpdateActivity(updated_by, timestamp, post, activity_type, summary)
        recipients == collab.recipients
        update_activity == add_recipients(saved, recipients)
        mentions == CreateNewMentions(newly_mentioned_users, recipients,
                                      post, updated_by, timestamp)
        calls1 == <<Call("get_updated_activity_data", post),
                    Call("is_comment", post),
                    Call("get_origin_post", post),
                    Call("Activity.save", updated_by),
                    Call("get_response_receivers", updated_by),
                    Call("add_recipients", updated_by)>>
                  \o [i \in 1..Len(mentions) |->
                        Call("create_new_mention", mentions[i].mentioned_whom)]
    IN
    IF ~AssertUpdatedByNotInRecipients(updated_by, recipients)
    THEN AssertionFailed(update_activity, mentions, calls1)
    ELSE
    LET counts == UpdateResponseCounts(recipients, newly_mentioned_users)
        calls2 == calls1 \o CountCalls(counts, Ascending(Users))
    IN
    IF EmailAlertsDisabled
    THEN [exception |-> "None",
          Activity |-> <<update_activity>>, Mention |-> mentions,
          response_counts |-> counts, notifications |-> <<>>,
          calls |-> calls2]
    ELSE
    LET notification_subscribers ==
            SpamProtection(created, updated_by, collab.subscribers)
    IN  [exception |-> "None",
         Activity |-> <<update_activity>>, Mention |-> mentions,
         response_counts |-> counts,
         notifications |-> <<[update_activity |-> update_activity,
                              post |-> post,
                              recipients |-> notification_subscribers]>>,
         calls |-> calls2 \o
                   <<Call("get_instant_notification_subscribers", updated_by),
                     Call("send_instant_notifications_about_activity_in_post", post)>>]

-----------------------------------------------------------------------------
(* record_post_update_celery_task *)

\* User.objects.get(id = updated_by_id) finds a row
UserExists(id) == id \in Users
\* ContentType.objects.get(id = post_content_type_id) finds a row
ContentTypeExists(id) == id \in ContentTypes
\* post_content_type.get_object_for_this_type(id = post_id) finds a row
PostExists(id) == id \in Posts

\* User.objects.filter(id__in = newly_mentioned_user_id_list): the stored users
\* among the ids, each once
FilterUsers(ids) == Ascending(Range(ids) \cap Users)

\* the lines before the try block: the first lookup that fails raises
LookupsSucceed(t) ==
    /\ UserExists(t.updated_by_id)
    /\ ContentTypeExists(t.post_content_type_id)
    /\ PostExists(t.post_id)

\* except Exception: print >>sys.stderr, traceback.format_exc(); raise
PrintedTraceback(r) ==
    IF r.exception = "None" THEN <<>> ELSE <<r.exception>>

\* The whole task: the result of the work unit, or of the failed lookup
record_post_update_celery_task(t) ==
    IF ~LookupsSucceed(t)
    THEN [exception |-> "DoesNotExist",
          Activity |-> <<>>, Mention |-> <<>>,
          response_counts |-> NoResponseCounts, notifications |-> <<>>,
          calls |-> <<>>, stderr |-> <<>>]
    ELSE LET r == record_post_update(t.post_id, t.updated_by_id,
                                     FilterUsers(t.newly_mentioned_user_id_list),
                                     t.timestamp, t.created, t.diff)
         IN  [exception |-> r.exception,
              Activity |-> r.Activity, Mention |-> r.Mention,
              response_counts |-> r.response_counts,
              notifications |-> r.notifications,
              calls |-> r.calls, stderr |-> PrintedTraceback(r)]

-----------------------------------------------------------------------------
(* record_question_visit *)

\* if update_view_count: question_post.thread.increase_view_count()
IncreaseViewCount(update_view_count, count) ==
    IF update_view_count THEN count + 1 ELSE count

\* if user.is_authenticated(): user.visit_question(question_post)
VisitQuestion(user, question_post) ==
    IF is_authenticated(user)
    THEN <<[user |-> user, question_post |-> question_post]>>
    ELSE <<>>

\* award_badges_signal.send(None, event = 'view_question', ...)
AwardBadgesSignal(user, question_post) ==
    <<[event |-> "view_question", actor |-> user, context_object |-> question_post]>>

\* the anonymous check made before the view count is touched
record_question_visit_anonymous_first(question_post, user, update_view_count) ==
    IF is_anonymous(user)
    THEN [view_count |-> view_count, visits |-> <<>>, badge_signals |-> <<>>]
    ELSE [view_count |-> IncreaseViewCount(update_view_count, view_count),
          visits |-> VisitQuestion(user, question_post),
          badge_signals |-> AwardBadgesSignal(user, question_post)]

\* The effects of one run of record_question_visit
record_question_visit(question_post, user, update_view_count) ==
    LET count == IncreaseViewCount(update_view_count, view_count)
    IN  IF is_anonymous(user)
        THEN [view_count |-> count, visits |-> <<>>, badge_signals |-> <<>>]
        ELSE [view_count |-> count,
              visits |-> VisitQuestion(user, question_post),
              badge_signals |-> AwardBadgesSignal(user, question_post)]

-----------------------------------------------------------------------------
(* notify_author_of_published_revision_celery_task *)

\* ReplyAddress.objects.create_new(**reply_options): a new row with an
\* address no stored row has
create_new(rows, reply_options) ==
    [user |-> reply_options.user,
     post |-> reply_options.post,
     reply_action |-> reply_options.reply_action,
     address |-> Len(rows) + 1]

\* ReplyAddress.as_email_address(): the row's address at the reply host
as_email_address(row) == [address |-> row.address, host |-> "REPLY_BY_EMAIL_HOSTNAME"]

\* mailto_link_subject
MailtoLinkSubject(post) ==
    IF post_type(post) = "question" THEN thread_title(post)
    ELSE <<"An edit for my answer">>

\* reply_code = append_content_address + ',' + replace_content_address
ReplyCode(append_content_address, replace_content_address) ==
    <<append_content_address, ",", replace_content_address>>

\* the Reply-To header given the replace-action address
HeadersReplace(append_content_address, replace_content_address) ==
    [Reply_To |-> replace_content_address]

\* headers = {'Reply-To': append_content_address}
Headers(append_content_address, replace_content_address) ==
    [Reply_To |-> append_content_address]

\* the template context
Data(revision, append_content_address, replace_content_address) ==
    [site_name |-> "APP_SHORT_NAME",
     post |-> revision.post,
     author_email_signature |-> <<"email_signature of", revision.author>>,
     replace_content_address |-> replace_content_address,
     reply_separator_line |-> "To add to your post EDIT ABOVE THIS LINE",
     mailto_link_subject |-> MailtoLinkSubject(revision.post),
     reply_code |-> ReplyCode(append_content_address, replace_content_address)]

\* the first reply_options, and the same with reply_action replaced
ReplyOptions(revision, reply_action) ==
    [user |-> revision.author, post |-> revision.post, reply_action |-> reply_action]

\* recipient_list = [revision.author.email,]
RecipientList(revision) == <<<<"email of", revision.author>>>>

\* The effects of one run of the task: the ReplyAddress table and the mail sent
notify_author_of_published_revision_celery_task(revision) ==
    IF ~askbot_settings.REPLY_BY_EMAIL
    THEN [ReplyAddress |-> ReplyAddress, outbox |-> <<>>]
    ELSE
    LET append_row == create_new(ReplyAddress, ReplyOptions(revision, "append_content"))
        rows1 == Append(ReplyAddress, append_row)
        append_content_address == as_email_address(append_row)
        replace_row == create_new(rows1, ReplyOptions(revision, "replace_content"))
        rows2 == Append(rows1, replace_row)
        replace_content_address == as_email_address(replace_row)
        data == Data(revision, append_content_address, replace_content_address)
    IN  [ReplyAddress |-> rows2,
         outbox |-> <<[subject_line |-> <<"Your post at %(site_name)s is now published",
                                          data.site_name>>,
                       body_text |-> <<"email/notify_author_about_approved_post.html", data>>,
                       recipient_list |-> RecipientList(revision),
                       related_object |-> revision,
                       activity_type |-> "TYPE_ACTIVITY_EMAIL_UPDATE_SENT",
                       headers |-> Headers(append_content_address,
                                           replace_content_address)]>>]

-----------------------------------------------------------------------------
(* The queued tasks and the stored state they start from *)

Timestamps == {<<"2012-03-01 10:00">>}
Diffs == {<<"fixed typo">>}

\* arguments of a direct call of the work unit: ORM objects
RecordPostUpdateCalls ==
    [name : {"record_post_update"},
     post : Posts,
     updated_by : Users,
     newly_mentioned_users : SeqsUpTo(Users, MaxMentioned),
     timestamp : Timestamps,
     created : BOOLEAN,
     diff : Diffs]

\* arguments of the celery task: ids, any of which may match no row
RecordPostUpdateTasks ==
    [name : {"record_post_update_celery_task"},
     post_id : Posts \cup {NoSuchId},
     post_content_type_id : ContentTypes \cup {NoSuchId},
     newly_mentioned_user_id_list : SeqsUpTo(Users \cup {NoSuchId}, MaxMentioned),
     updated_by_id : Users \cup {NoSuchId},
     timestamp : Timestamps,
     created : BOOLEAN,
     diff : Diffs]

RecordQuestionVisitTasks ==
    [name : {"record_question_visit"},
     question_post : {p \in Posts : post_type(p) = "question"},
     user : Users \cup {AnonymousUser},
     update_view_count : BOOLEAN]

Revisions == [author : Users, post : Posts]

NotifyAuthorTasks ==
    [name : {"notify_author_of_published_revision_celery_task"},
     revision : Revisions]

\* the settings as shipped: email alerts on, reply by email off
DefaultSettings == [ENABLE_EMAIL_ALERTS |-> TRUE, REPLY_BY_EMAIL |-> FALSE]

NoAnswers == [activity_data_raises |-> FALSE, recipients |-> {}, subscribers |-> {}]

\* What the Post collaborators answer to a run of record_post_update: whether
\* get_updated_activity_data raises, the set get_response_receivers returns
\* (it is asserted, not known, to leave out updated_by), and the set
\* get_instant_notification_subscribers returns when it is called at all.
CollabAnswers(updated_by, mentioned, alerts) ==
    {[NoAnswers EXCEPT !.activity_data_raises = TRUE]}
    \cup UNION {
        {[activity_data_raises |-> FALSE, recipients |-> r, subscribers |-> s] :
            s \in IF alerts /\ ~(updated_by \in r)
                  THEN SUBSET ((r \cup mentioned) \ {updated_by})
                  ELSE {{}}} :
        r \in SUBSET Users}

\* the variables a run writes, before it
Untouched ==
    /\ pc = "ready"
    /\ Activity = <<>>
    /\ Mention = <<>>
    /\ response_counts = NoResponseCounts
    /\ notifications = <<>>
    /\ calls = <<>>
    /\ exception = "None"
    /\ stderr = <<>>
    /\ visits = <<>>
    /\ badge_signals = <<>>
    /\ outbox = <<>>

\* ReplyAddress tables of n rows made by earlier notifications
StoredReplyAddresses(n) ==
    [i \in 1..n |-> [user |-> 1, post |-> 1,
                     reply_action |-> IF i % 2 = 1 THEN "append_content"
                                      ELSE "replace_content",
                     address |-> i]]

InitRecordPostUpdate ==
    \E t \in RecordPostUpdateCalls, alerts \in BOOLEAN :
        \E c \in CollabAnswers(t.updated_by, Range(t.newly_mentioned_users), alerts) :
            /\ task = t
            /\ askbot_settings = [DefaultSettings EXCEPT !.ENABLE_EMAIL_ALERTS = alerts]
            /\ collab = c
            /\ view_count = 0
            /\ ReplyAddress = <<>>
            /\ Untouched

InitRecordPostUpdateCeleryTask ==
    \E t \in RecordPostUpdateTasks, alerts \in BOOLEAN :
        \E c \in IF LookupsSucceed(t)
                 THEN CollabAnswers(t.updated_by_id,
                                    Range(FilterUsers(t.newly_mentioned_user_id_list)),
                                    alerts)
                 ELSE {NoAnswers} :
            /\ task = t
            /\ askbot_settings = [DefaultSettings EXCEPT !.ENABLE_EMAIL_ALERTS = alerts]
            /\ collab = c
            /\ view_count = 0
            /\ ReplyAddress = <<>>
            /\ Untouched

InitRecordQuestionVisit ==
    \E t \in RecordQuestionVisitTasks, n \in 0..MaxViewCount :
        /\ task = t
        /\ askbot_settings = DefaultSettings
        /\ collab = NoAnswers
        /\ view_count = n
        /\ ReplyAddress = <<>>
        /\ Untouched

InitNotifyAuthor ==
    \E t \in NotifyAuthorTasks, reply \in BOOLEAN, n \in 0..MaxReplyAddresses :
        /\ task = t
        /\ askbot_settings = [DefaultSettings EXCEPT !.REPLY_BY_EMAIL = reply]
        /\ collab = NoAnswers
        /\ view_count = 0
        /\ ReplyAddress = StoredReplyAddresses(n)
        /\ Untouched

Init ==
    \/ InitRecordPostUpdate
    \/ InitRecordPostUpdateCeleryTask
    \/ InitRecordQuestionVisit
    \/ InitNotifyAuthor

-----------------------------------------------------------------------------
(* The entry points *)

RecordPostUpdate ==
    /\ pc = "ready"
    /\ task.name = "record_post_update"
    /\ LET r == record_post_update(task.post, task.updated_by,
                                   task.newly_mentioned_users, task.timestamp,
                                   task.created, task.diff)
       IN  /\ Activity' = Activity \o r.Activity
           /\ Mention' = Mention \o r.Mention
           /\ response_counts' = r.response_counts
           /\ notifications' = r.notifications
           /\ calls' = r.calls
           /\ exception' = r.exception
    /\ pc' = "done"
    /\ UNCHANGED <<task, askbot_settings, collab, stderr, view_count,
                   visits, badge_signals, ReplyAddress, outbox>>

RecordPostUpdateCeleryTask ==
    /\ pc = "ready"
    /\ task.name = "record_post_update_celery_task"
    /\ LET r == record_post_update_celery_task(task)
       IN  /\ Activity' = Activity \o r.Activity
           /\ Mention' = Mention \o r.Mention
           /\ response_counts' = r.response_counts
           /\ notifications' = r.notifications
           /\ calls' = r.calls
           /\ exception' = r.exception
           /\ stderr' = stderr \o r.stderr
    /\ pc' = "done"
    /\ UNCHANGED <<task, askbot_settings, collab, view_count,
                   visits, badge_signals, ReplyAddress, outbox>>

RecordQuestionVisit ==
    /\ pc = "ready"
    /\ task.name = "record_question_visit"
    /\ LET r == record_question_visit(task.question_post, task.user,
                                      task.update_view_count)
       IN  /\ view_count' = r.view_count
           /\ visits' = r.visits
           /\ badge_signals' = r.badge_signals
    /\ pc' = "done"
    /\ UNCHANGED <<task, askbot_settings, collab, Activity, Mention,
                   response_counts, notifications, calls, exception, stderr,
                   ReplyAddress, outbox>>

NotifyAuthorOfPublishedRevisionCeleryTask ==
    /\ pc = "ready"
    /\ task.name = "notify_author_of_published_revision_celery_task"
    /\ LET r == notify_author_of_published_revision_celery_task(task.revision)
       IN  /\ ReplyAddress' = r.ReplyAddress
           /\ outbox' = r.outbox
    /\ pc' = "done"
    /\ UNCHANGED <<task, askbot_settings, collab, Activity, Mention,
                   response_counts, notifications, calls, exception, stderr,
                   view_count, visits, badge_signals>>

Next ==
    \/ RecordPostUpdate
    \/ RecordPostUpdateCeleryTask
    \/ RecordQuestionVisit
    \/ NotifyAuthorOfPublishedRevisionCeleryTask

Spec == Init /\ [][Next]_vars

-----------------------------------------------------------------------------
(* Properties *)

DirectCall == task.name = "record_post_update"
CeleryCall == task.name = "record_post_update_celery_task"

\* the updating user and the newly mentioned users the work unit is given
ArgUpdatedBy == IF DirectCall THEN task.updated_by ELSE task.updated_by_id
ArgPost == IF DirectCall THEN task.post ELSE task.post_id
ArgMentioned ==
    IF DirectCall THEN Range(task.newly_mentioned_users)
    ELSE Range(task.newly_mentioned_user_id_list) \cap Users

\* the three ids of the celery task resolve to stored rows
IdsResolve ==
    /\ task.updated_by_id \in Users
    /\ task.post_content_type_id \in ContentTypes
    /\ task.post_id \in Posts

\* record_post_update has been invoked and has run to its end
Invoked == pc = "done" /\ (DirectCall \/ (CeleryCall /\ IdsResolve))

\* ... and got past get_updated_activity_data, so that recipients were computed
RecipientsComputed == Invoked /\ ~collab.activity_data_raises

MentionedWhom == {Mention[i].mentioned_whom : i \in 1..Len(Mention)}

NumCalls(op) == Len(CallsOf(op))

\* position of the first call of op in the run (0: never called)
FirstCall(op) ==
    IF NumCalls(op) = 0 THEN 0
    ELSE CHOOSE i \in 1..Len(calls) :
            calls[i].op = op /\ \A j \in 1..(i - 1) : calls[j].op # op

\* the spam-protection condition of the run
Throttled ==
    /\ task.created
    /\ ~is_administrator(ArgUpdatedBy)
    /\ ~is_moderator(ArgUpdatedBy)
    /\ reputation(ArgUpdatedBy) < 15

\* C1: with email alerts enabled, the list handed to
\* send_instant_notifications_about_activity_in_post is the answer of
\* get_instant_notification_subscribers restricted to administrators exactly
\* when created is true, the updating user is neither administrator nor
\* moderator and has reputation below 15; otherwise it is the answer unchanged.
C1_SpamProtectionIffNewPostByLowReputationUser ==
    (/\ RecipientsComputed
     /\ askbot_settings.ENABLE_EMAIL_ALERTS
     /\ ~(ArgUpdatedBy \in collab.recipients))
    => /\ Len(notifications) = 1
       /\ notifications[1].recipients =
            IF Throttled
            THEN {u \in collab.subscribers : is_administrator(u)}
            ELSE collab.subscribers
       /\ Throttled => ~(\E u \in notifications[1].recipients :
                            is_moderator(u) /\ ~is_administrator(u))

\* C1 witness: scenario A, a new post by the regular user of reputation 14
\* whose subscribers are an administrator, a moderator and a regular user;
\* only the administrator is notified.
C1_Witness ==
    /\ Invoked
    /\ task.created
    /\ ArgUpdatedBy = 3
    /\ collab.subscribers = {1, 2, 4}
    /\ Len(notifications) = 1
    /\ notifications[1].recipients = {1}

\* C2: a Mention is created for exactly the newly mentioned users that are not
\* among the computed recipients, so no user is both a recipient of the
\* Activity and mentioned for the same event.
C2_MentionsAreMentionedMinusRecipients ==
    (pc = "done" /\ (DirectCall \/ CeleryCall))
    => /\ RecipientsComputed => MentionedWhom = ArgMentioned \ collab.recipients
       /\ ~RecipientsComputed => Mention = <<>>
       /\ \A i \in 1..Len(Activity) : Activity[i].recipients \cap MentionedWhom = {}
       /\ NumCalls("create_new_mention") = Len(Mention)

\* C2 witness: of two newly mentioned users one is a recipient and gets no
\* Mention, the other is not and gets one.
C2_Witness ==
    /\ RecipientsComputed
    /\ \E u \in ArgMentioned : u \in collab.recipients /\ ~(u \in MentionedWhom)
    /\ \E u \in ArgMentioned : ~(u \in collab.recipients) /\ u \in MentionedWhom

\* C3: when get_response_receivers returns a set containing the updating user
\* the run ends in an AssertionError with no counter refresh and no dispatch;
\* so a run that refreshes a counter or dispatches has updated_by outside the
\* recipients.
C3_AssertionStopsRunWhenUpdaterIsRecipient ==
    /\ (RecipientsComputed /\ ArgUpdatedBy \in collab.recipients)
       => /\ exception = "AssertionError"
          /\ response_counts = NoResponseCounts
          /\ notifications = <<>>
          /\ NumCalls("update_response_counts") = 0
          /\ NumCalls("get_instant_notification_subscribers") = 0
          /\ NumCalls("send_instant_notifications_about_activity_in_post") = 0
    /\ (/\ Invoked
        /\ \/ response_counts # NoResponseCounts
           \/ notifications # <<>>
           \/ NumCalls("update_response_counts") > 0
           \/ NumCalls("send_instant_notifications_about_activity_in_post") > 0)
       => ~(ArgUpdatedBy \in collab.recipients)

\* C3 witness: the updating user is among the recipients, a Mention was made
\* before the assertion, and the run ended in the AssertionError.
C3_Witness ==
    /\ RecipientsComputed
    /\ ArgUpdatedBy \in collab.recipients
    /\ Mention # <<>>
    /\ exception = "AssertionError"

\* C4: with ENABLE_EMAIL_ALERTS false neither
\* get_instant_notification_subscribers nor
\* send_instant_notifications_about_activity_in_post is called, whatever the
\* other inputs; the Activity, its recipients, the Mentions and the counter
\* refresh are made all the same.
C4_NoDispatchWhenEmailAlertsDisabled ==
    (Invoked /\ askbot_settings.ENABLE_EMAIL_ALERTS = FALSE)
    => /\ notifications = <<>>
       /\ NumCalls("get_instant_notification_subscribers") = 0
       /\ NumCalls("send_instant_notifications_about_activity_in_post") = 0
       /\ RecipientsComputed
          => /\ Len(Activity) = 1
             /\ Activity[1].recipients = collab.recipients
             /\ NumCalls("add_recipients") = 1
             /\ MentionedWhom = ArgMentioned \ collab.recipients
             /\ ~(ArgUpdatedBy \in collab.recipients)
                => /\ exception = "None"
                   /\ \A u \in Users :
                        response_counts[u] > 0
                        <=> u \in collab.recipients \cup ArgMentioned

\* C4 witness: a new post by the low-reputation user with alerts disabled: the
\* run returns having made a Mention and refreshed counters, and dispatches
\* nothing.
C4_Witness ==
    /\ RecipientsComputed
    /\ askbot_settings.ENABLE_EMAIL_ALERTS = FALSE
    /\ task.created
    /\ ArgUpdatedBy = 3
    /\ exception = "None"
    /\ Mention # <<>>
    /\ collab.recipients # {}
    /\ response_counts # NoResponseCounts
    /\ notifications = <<>>

\* C5 (as claimed): every failure of record_post_update_celery_task, a failed
\* lookup of updated_by_id, post_content_type_id or post_id included, has its
\* traceback written to stderr before it is re-raised.
C5_EveryFailureIsTraced ==
    (pc = "done" /\ CeleryCall /\ exception # "None")
    => stderr = <<exception>>

\* C6 (as claimed): the updating user is never treated as mentioned in their
\* own update: the run fails its assertion, or it creates no Mention of
\* updated_by and refreshes no counter of updated_by.
C6_UpdaterIsNeverMentioned ==
    Invoked
    => \/ exception = "AssertionError"
       \/ /\ ~(ArgUpdatedBy \in MentionedWhom)
          /\ response_counts[ArgUpdatedBy] = 0

\* C7: in a run that passes the assertion, update_response_counts is called
\* exactly once on each user of recipients \cup newly_mentioned_users, a user
\* of both included, and on no other user.
C7_CountersRefreshedOncePerUserOfUnion ==
    (RecipientsComputed /\ exception = "None")
    => /\ \A u \in Users :
            response_counts[u] =
                IF u \in collab.recipients \cup ArgMentioned THEN 1 ELSE 0
       /\ NumCalls("update_response_counts")
            = Cardinality(collab.recipients \cup ArgMentioned)
       /\ \A i \in 1..Len(calls) :
            calls[i].op = "update_response_counts"
            => calls[i].arg \in collab.recipients \cup ArgMentioned

\* C7 witness: user 4 is mentioned twice and is also a recipient, and is
\* refreshed once.
C7_Witness ==
    /\ pc = "done"
    /\ DirectCall
    /\ task.newly_mentioned_users = <<4, 4>>
    /\ 4 \in collab.recipients
    /\ exception = "None"
    /\ response_counts[4] = 1

RanRecordQuestionVisit ==
    pc = "ready" /\ pc' = "done" /\ task.name = "record_question_visit"

\* C8: record_question_visit adds exactly 1 to the thread's view count when
\* update_view_count is true and nothing otherwise, whoever the user is; for an
\* anonymous user it records no visit and sends no badge signal; for an
\* authenticated user it calls visit_question once and sends the
\* 'view_question' signal once, with that user as actor and the question post
\* as context object.
C8_QuestionVisitEffects ==
    [][RanRecordQuestionVisit
       => /\ view_count' = view_count + (IF task.update_view_count THEN 1 ELSE 0)
          /\ task.user = AnonymousUser
             => visits' = <<>> /\ badge_signals' = <<>>
          /\ task.user \in Users
             => /\ visits' = <<[user |-> task.user,
                                question_post |-> task.question_post]>>
                /\ badge_signals' = <<[event |-> "view_question",
                                       actor |-> task.user,
                                       context_object |-> task.question_post]>>
      ]_vars

\* C8 witness: scenario E, an anonymous visit with update_view_count true has
\* raised the view count by one and left no visit record and no badge signal.
C8_Witness ==
    /\ pc = "done"
    /\ task.name = "record_question_visit"
    /\ task.user = AnonymousUser
    /\ task.update_view_count
    /\ view_count = MaxViewCount + 1
    /\ visits = <<>>
    /\ badge_signals = <<>>

RanNotifyAuthor ==
    /\ pc = "ready"
    /\ pc' = "done"
    /\ task.name = "notify_author_of_published_revision_celery_task"

\* C9: with REPLY_BY_EMAIL off the task mints no ReplyAddress and sends no
\* email; with it on the task mints exactly two ReplyAddress rows for the
\* revision's author and post, the first append_content and the second
\* replace_content, and sends one email, to the author only, whose Reply-To is
\* the append address, whose context's replace_content_address is the replace
\* address and whose reply_code is the append address, a comma, the replace
\* address.
C9_NotifyAuthorMintsTwoAddressesAndSendsOneEmail ==
    [][RanNotifyAuthor
       => IF ~askbot_settings.REPLY_BY_EMAIL
          THEN ReplyAddress' = ReplyAddress /\ outbox' = <<>>
          ELSE LET n == Len(ReplyAddress)
                   first == ReplyAddress'[n + 1]
                   second == ReplyAddress'[n + 2]
                   append_address == as_email_address(first)
                   replace_address == as_email_address(second)
                   email == outbox'[1]
                   data == email.body_text[2]
               IN  /\ Len(ReplyAddress') = n + 2
                   /\ SubSeq(ReplyAddress', 1, n) = ReplyAddress
                   /\ first.user = task.revision.author
                   /\ first.post = task.revision.post
                   /\ first.reply_action = "append_content"
                   /\ second.user = task.revision.author
                   /\ second.post = task.revision.post
                   /\ second.reply_action = "replace_content"
                   /\ append_address # replace_address
                   /\ Len(outbox') = 1
                   /\ email.recipient_list = <<<<"email of", task.revision.author>>>>
                   /\ email.headers.Reply_To = append_address
                   /\ data.replace_content_address = replace_address
                   /\ data.reply_code = <<append_address, ",", replace_address>>
      ]_vars

\* C9 witness: with REPLY_BY_EMAIL on and a stored ReplyAddress table, the task
\* has added two rows and sent one email about a question.
C9_Witness ==
    /\ pc = "done"
    /\ task.name = "notify_author_of_published_revision_celery_task"
    /\ askbot_settings.REPLY_BY_EMAIL
    /\ post_type(task.revision.post) = "question"
    /\ Len(ReplyAddress) = MaxReplyAddresses + 2
    /\ Len(outbox) = 1
    /\ outbox[1].headers.Reply_To.address = MaxReplyAddresses + 1

\* C10: a run that gets past get_updated_activity_data saves exactly one
\* Activity (user = updated_by, active_at = timestamp), before the recipients
\* are computed, on every path: with alerts disabled, and when the assertion
\* fails, where the Activity and the Mentions made stay stored. After the save
\* the Activity only has its recipient set attached, once.
C10_OneActivityPerUpdate ==
    /\ RecipientsComputed
       => /\ Len(Activity) = 1
          /\ Activity[1].user = ArgUpdatedBy
          /\ Activity[1].active_at = task.timestamp
          /\ Activity[1] = [UpdateActivity(ArgUpdatedBy, task.timestamp, ArgPost,
                                           Activity[1].activity_type,
                                           Activity[1].summary)
                            EXCEPT !.recipients = collab.recipients]
          /\ NumCalls("Activity.save") = 1
          /\ NumCalls("add_recipients") = 1
          /\ FirstCall("Activity.save") < FirstCall("get_response_receivers")
          /\ FirstCall("get_response_receivers") < FirstCall("add_recipients")
          /\ MentionedWhom = ArgMentioned \ collab.recipients
          /\ \A i \in 1..Len(notifications) :
                notifications[i].update_activity = Activity[1]
    /\ (pc = "done" /\ (DirectCall \/ CeleryCall) /\ ~RecipientsComputed)
       => Activity = <<>>

\* C10 witness: the assertion failed with alerts disabled, and the Activity
\* with its recipients and a Mention are stored.
C10_Witness ==
    /\ RecipientsComputed
    /\ exception = "AssertionError"
    /\ askbot_settings.ENABLE_EMAIL_ALERTS = FALSE
    /\ Len(Activity) = 1
    /\ Activity[1].recipients # {}
    /\ Mention # <<>>

====
